---- MODULE Spec2Model ----
(***************************************************************************)
(* Model of src/main.rs of zxrs/speech: the playback lifecycle.            *)
(*                                                                         *)
(* One foreground (UI) thread dispatches the commands of command(); every  *)
(* call of speech() spawns one background thread, which synthesizes,       *)
(* builds a player, pushes a Sender into the global STOP vector, registers *)
(* the MediaEnded / MediaFailed handlers, plays, blocks in rx.recv() and   *)
(* closes the player.  clear_edit_control_text() empties the edit control  *)
(* and drains STOP under its mutex, sending () on every popped Sender.     *)
(*                                                                         *)
(* The channel of the code carries the unit value (), so a channel is the  *)
(* number of messages buffered in it.  The history variable `origin` notes *)
(* who sent the message that rx.recv() returns ("ended", "failed" or       *)
(* "cancel"); the program itself cannot read it.                           *)
(*                                                                         *)
(* Spec is play and clear on a window whose controls stay as created;      *)
(* FairSpec adds the scheduling of the threads; EditSpec is the commands   *)
(* and the synthesis step with a user who changes the controls; SaveSpec   *)
(* is save_to_wav(), which runs as a whole on the foreground thread.       *)
(***************************************************************************)
EXTENDS Integers, Sequences, FiniteSets

\* ---------------------------------------------------------------- bounds
MaxSessions == 2      \* calls of speech() that spawn a thread
MaxFire == 2          \* player events raised in one run
MaxRaw == 27          \* largest trackbar position tried on get_speaking_rate()

\* ------------------------------------------------------ program constants
ID_PLAY == 5890       \* WM_COMMAND id of the play button
ID_CLEAR == 5891      \* WM_COMMAND id of the clear button
ID_SAVE == 5892       \* WM_COMMAND id of the save button
NoCommand == 0        \* no command has returned yet
CB_ERR == -1          \* CB_GETCURSEL result when nothing is selected
RateMinTenths == 5    \* 0.5, as tenths
RateMaxTenths == 25   \* 2.5, as tenths
TrackbarInitPos == 10 \* TBM_SETPOS at creation
TrackbarMin == 5      \* TBM_SETRANGE at creation, low end
TrackbarMax == 25     \* TBM_SETRANGE at creation, high end
UI == -1              \* owner id of the foreground thread for the STOP mutex
Free == 0             \* the STOP mutex is not held

Sessions == 1..MaxSessions

\* results of TBM_GETPOS tried on get_speaking_rate(); the function makes no use of
\* the range the trackbar was given, so values around it are tried as well
RawPositions == 0..MaxRaw

\* contents of the edit control, as UTF-16 units
Texts == {<<>>, <<104, 105>>}

\* values of stream.Size(), as four 16-bit limbs
StreamSizes == {<<0, 0, 0, 44>>, <<0, 0, 1, 0>>, <<0, 0, 65535, 65535>>,
                <<0, 1, 0, 0>>, <<0, 1, 0, 44>>, <<1, 0, 0, 44>>}

\* paths the save dialog can return; its buffer starts as "speech.wav"
Paths == {"speech.wav", "out.wav"}

\* display names the combobox was filled with at creation (CBS_SORT order)
ComboItems == <<"Ayumi", "Zira">>
VoiceNames == {ComboItems[i] : i \in 1..Len(ComboItems)}

\* statements of the closure of speech(), in program order
PcSynth == "synth"            \* line 138
PcPlayer == "player"          \* lines 139-142
PcLock == "lock"              \* line 144
PcPush == "push"              \* lines 145-146
PcRegEnded == "reg_ended"     \* lines 147-151
PcRegFailed == "reg_failed"   \* lines 152-155
PcPlay == "play"              \* line 156
PcRecv == "recv"              \* line 157
PcClose == "close"            \* line 158
PcRmEnded == "rm_ended"       \* line 159
PcRmFailed == "rm_failed"     \* line 160
PcEnd == "end"                \* line 161

VARIABLES
    editHwnd,      \* EDIT_HWND is set
    comboHwnd,     \* COMBOBOX_HWND is set
    trackbarHwnd,  \* TRACKBAR_HWND is set
    editText,      \* contents of the edit control
    sel,           \* CB_GETCURSEL of the combobox: index from 0, or CB_ERR
    allVoices,     \* SpeechSynthesizer::AllVoices(): installed display names
    trackPos,      \* TBM_GETPOS of the trackbar
    uiPc,          \* position of the foreground thread
    cmdRet,        \* the last finished command(): its id and the Result it returned
    STOP,          \* the Vec<Sender<()>>: ids of the sessions whose Sender it holds
    lock,          \* holder of the STOP mutex
    pc,            \* per session: the statement its thread is at
    ret,           \* per session: "none" while not returned, else the closure's result
    text,          \* per session: the buffer moved into the closure
    chan,          \* per session: number of () buffered in its channel
    fires,         \* player events raised so far
    origin,        \* history: sender of the first message buffered in the channel
    wakes,         \* history: number of returns of rx.recv()
    closes,        \* history: number of calls of player.Close()
    cancelSends,   \* history: tx.send(()) calls of the drain on this session's Sender
    snapshot,      \* history: STOP as it was when the running drain took the mutex
    request,       \* per session: what speech_synthesis_stream() handed to the engine
    atCall,        \* history, per session: the controls as they were when speech() ran
    file_path,     \* save_to_wav(): the path returned by get_save_file_path()
    saveText,      \* save_to_wav(): the buffer read at line 190
    saveReq,       \* save_to_wav(): what speech_synthesis_stream() handed to the engine
    streamSize,    \* save_to_wav(): stream.Size(), a u64
    size,          \* save_to_wav(): the local `size`, a u32
    fileLen        \* length of the file on disk, or NoFile

uiVars == <<editHwnd, comboHwnd, trackbarHwnd, editText, sel, allVoices, trackPos>>
fgVars == <<uiPc, cmdRet>>
sessVars == <<pc, ret, text>>
chanVars == <<chan, origin>>
histVars == <<wakes, closes, cancelSends, snapshot>>
reqVars == <<request, atCall>>
saveVars == <<file_path, saveText, saveReq, streamSize, size, fileLen>>
playVars == <<STOP, lock, sessVars, chanVars, fires, histVars, reqVars>>
vars == <<uiVars, fgVars, STOP, lock, sessVars, chanVars, fires, histVars,
          reqVars, saveVars>>

Range(q) == {q[i] : i \in 1..Len(q)}

\* ------------------------------------------------------- pure functions

\* get_edit_control_text(): "no handle." without EDIT_HWND; else a buffer of
\* GetWindowTextLengthW + 1 units, the contents followed by the terminating 0
get_edit_control_text(hwnd, contents) ==
    IF ~hwnd THEN [ok |-> FALSE, val |-> <<>>]
    ELSE [ok |-> TRUE, val |-> Append(contents, 0)]

\* variant: a position outside the range is moved to its nearest end
get_speaking_rate_Clamped(hwnd, pos) ==
    IF ~hwnd THEN [ok |-> FALSE, tenths |-> 0]
    ELSE [ok |-> TRUE,
          tenths |-> IF pos < RateMinTenths THEN RateMinTenths
                     ELSE IF pos > RateMaxTenths THEN RateMaxTenths ELSE pos]

\* variant: the lower end of the range is excluded
get_speaking_rate_ExclusiveLow(hwnd, pos) ==
    IF ~hwnd THEN [ok |-> FALSE, tenths |-> 0]
    ELSE IF RateMinTenths < pos /\ pos <= RateMaxTenths
         THEN [ok |-> TRUE, tenths |-> pos]
         ELSE [ok |-> FALSE, tenths |-> 0]

\* variant: an unmatched or missing selection falls back to an installed voice
get_selected_voice_information_Fallback(hwnd, index, installed) ==
    IF ~hwnd THEN [ok |-> FALSE, voice |-> ""]
    ELSE IF index >= 0 /\ ComboItems[index + 1] \in installed
         THEN [ok |-> TRUE, voice |-> ComboItems[index + 1]]
         ELSE [ok |-> installed # {}, voice |-> ""]

\* get_selected_voice_information(): the first installed voice whose DisplayName
\* equals the text of the selected combobox item
get_selected_voice_information(hwnd, index, installed) ==
    IF ~hwnd THEN [ok |-> FALSE, voice |-> ""]
    ELSE IF ~(index >= 0) THEN [ok |-> FALSE, voice |-> ""]
    ELSE IF ComboItems[index + 1] \in installed
         THEN [ok |-> TRUE, voice |-> ComboItems[index + 1]]
         ELSE [ok |-> FALSE, voice |-> ""]

\* get_speaking_rate(): position / 10.0 must lie in [0.5, 2.5]; the rate is kept in
\* tenths here (n / 10.0 >= 0.5 iff n >= 5, and n / 10.0 <= 2.5 iff n <= 25, exactly)
get_speaking_rate(hwnd, pos) ==
    IF ~hwnd THEN [ok |-> FALSE, tenths |-> 0]
    ELSE IF RateMinTenths <= pos /\ pos <= RateMaxTenths
         THEN [ok |-> TRUE, tenths |-> pos]
         ELSE [ok |-> FALSE, tenths |-> 0]

\* what speech_synthesis_stream() needs from the controls to reach the engine call
SynthInputsOk ==
    /\ get_selected_voice_information(comboHwnd, sel, allVoices).ok
    /\ get_speaking_rate(trackbarHwnd, trackPos).ok

\* lines 125-131: what the engine is given: the text (HSTRING::from_wide keeps the
\* units of the buffer), the voice of SetVoice and the rate of SetSpeakingRate
SynthesisRequest(source) ==
    [text |-> source,
     voice |-> get_selected_voice_information(comboHwnd, sel, allVoices).voice,
     rate |-> get_speaking_rate(trackbarHwnd, trackPos).tenths]

\* what the combobox and the trackbar show
Controls == [sel |-> sel, pos |-> trackPos]

\* a u64 as four 16-bit limbs, most significant first
U64(a, b, c, d) == <<a, b, c, d>>
\* `as u32` (line 193): the low 32 bits
AsU32(n) == <<n[3], n[4]>>
\* `as usize` of a u32 on a 64-bit target (line 198): zero-extended
AsUsize(n) == <<0, 0, n[1], n[2]>>

NoPath == "none"      \* no file_path yet
\* the Err of line 180, GetSaveFileNameW(..).ok()?
ErrDialog == "Err(GetSaveFileNameW)"
NoFile == <<>>        \* there is no file
NoSize == <<>>        \* the local is not initialized yet
\* the engine was not called (no call has rate 0)
NoRequest == [text |-> <<>>, voice |-> "", rate |-> 0]

\* ----------------------------------------------------- session predicates

Returned(s) == ret[s] # "none"

At(s, label) == pc[s] = label /\ ~Returned(s)

\* rx exists from line 142 until the closure returns and drops it
RxAlive(s) ==
    /\ ~Returned(s)
    /\ pc[s] \in {PcLock, PcPush, PcRegEnded, PcRegFailed, PcPlay, PcRecv,
                  PcClose, PcRmEnded, PcRmFailed}

\* tx.send(()): buffers one message while the Receiver exists; afterwards send
\* returns Err, which every caller discards
send(s, from) ==
    /\ chan' = [chan EXCEPT ![s] = IF RxAlive(s) THEN @ + 1 ELSE @]
    /\ origin' = [origin EXCEPT ![s] =
                     IF RxAlive(s) /\ @ = "none" THEN from ELSE @]

\* the MediaEnded handler is registered (pc stays at the statement that failed)
EndedRegistered(s) == pc[s] \in {PcRegFailed, PcPlay, PcRecv, PcClose, PcRmEnded}
\* the MediaFailed handler is registered
FailedRegistered(s) == pc[s] \in {PcPlay, PcRecv, PcClose, PcRmEnded, PcRmFailed}
\* player.Play() has succeeded
Played(s) == pc[s] \in {PcRecv, PcClose, PcRmEnded, PcRmFailed, PcEnd}
\* the session has executed stop.push(tx.clone())
HasPushed(s) ==
    pc[s] \in {PcRegEnded, PcRegFailed, PcPlay, PcRecv, PcClose, PcRmEnded,
               PcRmFailed, PcEnd}
\* the Sender of s was pushed and a drain has popped it since
Drained(s) == HasPushed(s) /\ s \notin Range(STOP)
\* who sent the message that rx.recv() returned
WokenBy(s) == IF wakes[s] > 0 THEN origin[s] ELSE "none"

\* `?` on an Err: the closure returns Err at the current statement, rx is dropped
Fail(s) ==
    /\ ret' = [ret EXCEPT ![s] = "Err"]
    /\ chan' = [chan EXCEPT ![s] = 0]
    /\ UNCHANGED <<pc, text, origin>>

\* the statement succeeded
Goto(s, next) ==
    /\ pc' = [pc EXCEPT ![s] = next]
    /\ UNCHANGED <<ret, text, chanVars>>

\* --------------------------------------------------------------- Init

\* create(): create_edit, create_combobox, create_trackbar run in this order and the
\* first failure ends create(); n is the number of controls that were created.
\* The combobox shows the voices installed then; one of them has been removed since.
Created(contents, pos) ==
    /\ \E n \in 0..3 :
        /\ editHwnd = (n >= 1)
        /\ comboHwnd = (n >= 2)
        /\ trackbarHwnd = (n >= 3)
    /\ editText = contents
    /\ sel \in {CB_ERR} \cup (0..(Len(ComboItems) - 1))
    /\ allVoices = VoiceNames \ {ComboItems[Len(ComboItems)]}
    /\ trackPos = pos
    /\ uiPc = "idle"
    /\ cmdRet = [id |-> NoCommand, r |-> "none"]
    /\ STOP = <<>>
    /\ lock = Free
    /\ pc = [s \in Sessions |-> "idle"]
    /\ ret = [s \in Sessions |-> "none"]
    /\ text = [s \in Sessions |-> <<>>]
    /\ chan = [s \in Sessions |-> 0]
    /\ fires = 0
    /\ origin = [s \in Sessions |-> "none"]
    /\ wakes = [s \in Sessions |-> 0]
    /\ closes = [s \in Sessions |-> 0]
    /\ cancelSends = [s \in Sessions |-> 0]
    /\ snapshot = <<>>
    /\ request = [s \in Sessions |-> NoRequest]
    /\ atCall = [s \in Sessions |-> Controls]
    /\ file_path = NoPath
    /\ saveText = <<>>
    /\ saveReq = NoRequest
    /\ streamSize = NoSize
    /\ size = NoSize
    /\ fileLen = NoFile

\* the window right after WM_CREATE: empty edit control, trackbar at its initial
\* position
Init == Created(<<>>, TrackbarInitPos)

\* ------------------------------------------------- foreground thread

\* speech() (ID_PLAY): reads the text, spawns the thread, returns Ok
speech ==
    /\ uiPc = "idle"
    /\ LET r == get_edit_control_text(editHwnd, editText) IN
       IF ~r.ok
       THEN /\ cmdRet' = [id |-> ID_PLAY, r |-> "Err"]
            /\ UNCHANGED <<uiPc, sessVars, atCall>>
       ELSE /\ \E s \in Sessions :
                 /\ pc[s] = "idle"
                 /\ \A o \in Sessions : o < s => pc[o] # "idle"
                 /\ pc' = [pc EXCEPT ![s] = PcSynth]
                 /\ text' = [text EXCEPT ![s] = r.val]
                 /\ atCall' = [atCall EXCEPT ![s] = Controls]
            /\ cmdRet' = [id |-> ID_PLAY, r |-> "Ok"]
            /\ UNCHANGED <<uiPc, ret>>
    /\ UNCHANGED <<uiVars, request, saveVars, STOP, lock, chanVars, fires, histVars>>

\* clear_edit_control_text() (ID_CLEAR), lines 227-228: "no handle." or WM_SETTEXT
ClearStart ==
    /\ uiPc = "idle"
    /\ IF ~editHwnd
       THEN /\ cmdRet' = [id |-> ID_CLEAR, r |-> "Err"]
            /\ UNCHANGED <<uiPc, editText>>
       ELSE /\ editText' = <<>>
            /\ uiPc' = "clear_lock"
            /\ UNCHANGED cmdRet
    /\ UNCHANGED <<editHwnd, comboHwnd, trackbarHwnd, sel, allVoices, trackPos,
                   reqVars, saveVars, STOP, lock, sessVars, chanVars, fires, histVars>>

\* line 229: STOP.lock()
ClearLock ==
    /\ uiPc = "clear_lock"
    /\ lock = Free
    /\ lock' = UI
    /\ uiPc' = "clear_drain"
    /\ snapshot' = STOP
    /\ UNCHANGED <<uiVars, reqVars, saveVars, cmdRet, STOP, sessVars, chanVars, fires,
                   wakes, closes, cancelSends>>

\* variant: the Sender is popped and dropped, nothing is sent on it
ClearPop_NoSend ==
    /\ uiPc = "clear_drain"
    /\ STOP # <<>>
    /\ STOP' = SubSeq(STOP, 1, Len(STOP) - 1)
    /\ UNCHANGED <<uiVars, reqVars, saveVars, fgVars, lock, sessVars, chanVars, fires, histVars>>

\* variant: every pop notifies every session that has a channel
ClearPop_Broadcast ==
    /\ uiPc = "clear_drain"
    /\ STOP # <<>>
    /\ STOP' = SubSeq(STOP, 1, Len(STOP) - 1)
    /\ chan' = [s \in Sessions |-> IF RxAlive(s) THEN chan[s] + 1 ELSE chan[s]]
    /\ origin' = [s \in Sessions |->
                     IF RxAlive(s) /\ origin[s] = "none" THEN "cancel" ELSE origin[s]]
    /\ cancelSends' = [cancelSends EXCEPT ![STOP[Len(STOP)]] = @ + 1]
    /\ UNCHANGED <<uiVars, reqVars, saveVars, fgVars, lock, sessVars, fires, wakes, closes, snapshot>>

\* lines 230-234, one iteration: pop the last Sender and send on it
ClearPop ==
    /\ uiPc = "clear_drain"
    /\ STOP # <<>>
    /\ LET s == STOP[Len(STOP)] IN
        /\ STOP' = SubSeq(STOP, 1, Len(STOP) - 1)
        /\ send(s, "cancel")
        /\ cancelSends' = [cancelSends EXCEPT ![s] = @ + 1]
    /\ UNCHANGED <<uiVars, reqVars, saveVars, fgVars, lock, sessVars, fires, wakes, closes, snapshot>>

\* variant: a drain that found nothing to cancel reports an error
ClearReturn_ErrWhenEmpty ==
    /\ uiPc = "clear_drain"
    /\ STOP = <<>>
    /\ lock' = Free
    /\ uiPc' = "idle"
    /\ cmdRet' = [id |-> ID_CLEAR, r |-> IF snapshot = <<>> THEN "Err" ELSE "Ok"]
    /\ snapshot' = <<>>
    /\ UNCHANGED <<uiVars, reqVars, saveVars, STOP, sessVars, chanVars, fires,
                   wakes, closes, cancelSends>>

\* lines 230, 235-236: the loop ends, Ok(()) is returned and the guard dropped
ClearReturn ==
    /\ uiPc = "clear_drain"
    /\ STOP = <<>>
    /\ lock' = Free
    /\ uiPc' = "idle"
    /\ cmdRet' = [id |-> ID_CLEAR, r |-> "Ok"]
    /\ snapshot' = <<>>
    /\ UNCHANGED <<uiVars, reqVars, saveVars, STOP, sessVars, chanVars, fires,
                   wakes, closes, cancelSends>>

\* ------------------------------------------------ background threads

\* line 138, speech_synthesis_stream(): the controls are read with SendMessageW,
\* which the foreground thread answers from its message loop; the engine calls
\* (SpeechSynthesizer::new, SetVoice, SetSpeakingRate, SynthesizeTextToStreamAsync)
\* may fail whatever the inputs
\* variant: the closure captures nothing and reads the edit control when it runs
SynthSucceeds_ReadsLate(s) ==
    /\ uiPc = "idle"
    /\ SynthInputsOk
    /\ request' = [request EXCEPT ![s] =
                      SynthesisRequest(get_edit_control_text(editHwnd, editText).val)]
    /\ Goto(s, PcPlayer)

SynthSucceeds(s) ==
    /\ uiPc = "idle"
    /\ SynthInputsOk
    /\ request' = [request EXCEPT ![s] = SynthesisRequest(text[s])]
    /\ Goto(s, PcPlayer)

Synth(s) ==
    /\ At(s, PcSynth)
    /\ \/ SynthSucceeds(s)
       \/ Fail(s) /\ UNCHANGED request
    /\ UNCHANGED <<uiVars, atCall, saveVars, fgVars, STOP, lock, fires, histVars>>

\* lines 139-142: MediaPlayer::new, CreateFromStream, SetSource, mpsc::channel
NewPlayer(s) ==
    /\ At(s, PcPlayer)
    /\ \/ Goto(s, PcLock)
       \/ Fail(s)
    /\ UNCHANGED <<uiVars, reqVars, saveVars, fgVars, STOP, lock, fires, histVars>>

\* variant: the registration takes no account of the mutex being held
Lock_NoMutex(s) ==
    /\ At(s, PcLock)
    /\ lock' = s
    /\ Goto(s, PcPush)
    /\ UNCHANGED <<uiVars, reqVars, saveVars, fgVars, STOP, fires, histVars>>

\* line 144: STOP.lock()
Lock(s) ==
    /\ At(s, PcLock)
    /\ lock = Free
    /\ lock' = s
    /\ Goto(s, PcPush)
    /\ UNCHANGED <<uiVars, reqVars, saveVars, fgVars, STOP, fires, histVars>>

\* variant: without the block of lines 143-146 the guard lives to the end of the
\* closure
Push_GuardKept(s) ==
    /\ At(s, PcPush)
    /\ STOP' = Append(STOP, s)
    /\ Goto(s, PcRegEnded)
    /\ UNCHANGED <<uiVars, reqVars, saveVars, fgVars, lock, fires, histVars>>

\* lines 145-146: stop.push(tx.clone()), the guard is dropped
Push(s) ==
    /\ At(s, PcPush)
    /\ STOP' = Append(STOP, s)
    /\ lock' = Free
    /\ Goto(s, PcRegEnded)
    /\ UNCHANGED <<uiVars, reqVars, saveVars, fgVars, fires, histVars>>

\* lines 147-151: player.MediaEnded(handler)?
RegEnded(s) ==
    /\ At(s, PcRegEnded)
    /\ \/ Goto(s, PcRegFailed)
       \/ Fail(s)
    /\ UNCHANGED <<uiVars, reqVars, saveVars, fgVars, STOP, lock, fires, histVars>>

\* lines 152-155: player.MediaFailed(handler)?
RegFailed(s) ==
    /\ At(s, PcRegFailed)
    /\ \/ Goto(s, PcPlay)
       \/ Fail(s)
    /\ UNCHANGED <<uiVars, reqVars, saveVars, fgVars, STOP, lock, fires, histVars>>

\* line 156: player.Play()?
StartPlay(s) ==
    /\ At(s, PcPlay)
    /\ \/ Goto(s, PcRecv)
       \/ Fail(s)
    /\ UNCHANGED <<uiVars, reqVars, saveVars, fgVars, STOP, lock, fires, histVars>>

\* variant: the wait gives up after a while, notified or not
Recv_Timeout(s) ==
    /\ At(s, PcRecv)
    /\ chan' = [chan EXCEPT ![s] = IF @ > 0 THEN @ - 1 ELSE @]
    /\ wakes' = [wakes EXCEPT ![s] = @ + 1]
    /\ pc' = [pc EXCEPT ![s] = PcClose]
    /\ UNCHANGED <<uiVars, reqVars, saveVars, fgVars, STOP, lock, ret, text, origin,
                   fires, closes, cancelSends, snapshot>>

\* line 157: rx.recv()? blocks until a message is buffered.  It cannot return Err:
\* the handlers own Senders for as long as this thread owns the player.
Recv(s) ==
    /\ At(s, PcRecv)
    /\ chan[s] > 0
    /\ chan' = [chan EXCEPT ![s] = @ - 1]
    /\ wakes' = [wakes EXCEPT ![s] = @ + 1]
    /\ pc' = [pc EXCEPT ![s] = PcClose]
    /\ UNCHANGED <<uiVars, reqVars, saveVars, fgVars, STOP, lock, ret, text, origin, fires,
                   closes, cancelSends, snapshot>>

\* variant: after closing, the thread waits for the next message again
Close_ThenWaitAgain(s) ==
    /\ At(s, PcClose)
    /\ closes' = [closes EXCEPT ![s] = @ + 1]
    /\ \/ Goto(s, PcRecv)
       \/ Fail(s)
    /\ UNCHANGED <<uiVars, reqVars, saveVars, fgVars, STOP, lock, fires, wakes, cancelSends, snapshot>>

\* line 158: player.Close()?
Close(s) ==
    /\ At(s, PcClose)
    /\ closes' = [closes EXCEPT ![s] = @ + 1]
    /\ \/ Goto(s, PcRmEnded)
       \/ Fail(s)
    /\ UNCHANGED <<uiVars, reqVars, saveVars, fgVars, STOP, lock, fires, wakes, cancelSends, snapshot>>

\* line 159: player.RemoveMediaEnded(token)?
RmEnded(s) ==
    /\ At(s, PcRmEnded)
    /\ \/ Goto(s, PcRmFailed)
       \/ Fail(s)
    /\ UNCHANGED <<uiVars, reqVars, saveVars, fgVars, STOP, lock, fires, histVars>>

\* lines 160-161: player.RemoveMediaFailed(token)?, then Ok(())
RmFailed(s) ==
    /\ At(s, PcRmFailed)
    /\ \/ /\ pc' = [pc EXCEPT ![s] = PcEnd]
          /\ ret' = [ret EXCEPT ![s] = "Ok"]
          /\ chan' = [chan EXCEPT ![s] = 0]
          /\ UNCHANGED <<text, origin>>
       \/ Fail(s)
    /\ UNCHANGED <<uiVars, reqVars, saveVars, fgVars, STOP, lock, fires, histVars>>

\* ------------------------------------------------------ player events
\* The handlers run on a thread of the player, at any time while registered.

\* variant: the handlers of all players send on one shared channel
MediaEnded_Shared(s) ==
    /\ EndedRegistered(s)
    /\ Played(s)
    /\ fires < MaxFire
    /\ fires' = fires + 1
    /\ chan' = [t \in Sessions |-> IF RxAlive(t) THEN chan[t] + 1 ELSE chan[t]]
    /\ origin' = [t \in Sessions |->
                     IF RxAlive(t) /\ origin[t] = "none" THEN "ended" ELSE origin[t]]
    /\ UNCHANGED <<uiVars, reqVars, saveVars, fgVars, STOP, lock, sessVars, histVars>>

\* lines 148-151: the MediaEnded handler, tx_clone.send(()).ok()
MediaEnded(s) ==
    /\ EndedRegistered(s)
    /\ Played(s)
    /\ fires < MaxFire
    /\ fires' = fires + 1
    /\ send(s, "ended")
    /\ UNCHANGED <<uiVars, reqVars, saveVars, fgVars, STOP, lock, sessVars, histVars>>

\* lines 152-155: the MediaFailed handler, tx.send(()).ok()
MediaFailed(s) ==
    /\ FailedRegistered(s)
    /\ fires < MaxFire
    /\ fires' = fires + 1
    /\ send(s, "failed")
    /\ UNCHANGED <<uiVars, reqVars, saveVars, fgVars, STOP, lock, sessVars, histVars>>

\* ------------------------------------------------------ specification

\* command(): the handler of the button that was pressed
command == speech \/ ClearStart

Next ==
    \/ command
    \/ ClearLock
    \/ ClearPop
    \/ ClearReturn
    \/ \E s \in Sessions : Synth(s)
    \/ \E s \in Sessions : NewPlayer(s)
    \/ \E s \in Sessions : Lock(s)
    \/ \E s \in Sessions : Push(s)
    \/ \E s \in Sessions : RegEnded(s)
    \/ \E s \in Sessions : RegFailed(s)
    \/ \E s \in Sessions : StartPlay(s)
    \/ \E s \in Sessions : Recv(s)
    \/ \E s \in Sessions : Close(s)
    \/ \E s \in Sessions : RmEnded(s)
    \/ \E s \in Sessions : RmFailed(s)
    \/ \E s \in Sessions : MediaEnded(s)
    \/ \E s \in Sessions : MediaFailed(s)

Spec == Init /\ [][Next]_vars

\* A thread that can run is run: once rx.recv() can return, the rest of the closure
\* (lines 157-161) is executed.
FairSpec ==
    /\ Spec
    /\ \A s \in Sessions :
        /\ WF_vars(Recv(s))
        /\ WF_vars(Close(s))
        /\ WF_vars(RmEnded(s))
        /\ WF_vars(RmFailed(s))

\* ------------------------------------------------------- the user
\* Input to the controls is handled by the foreground thread between two commands.

\* positions the user moves the trackbar to: the ends of its range and the middle
TrackbarStops == {TrackbarMin, TrackbarInitPos, TrackbarMax}

\* the user edits the text
TypeText ==
    /\ uiPc = "idle"
    /\ editHwnd
    /\ editText' \in Texts \ {editText}
    /\ UNCHANGED <<editHwnd, comboHwnd, trackbarHwnd, sel, allVoices, trackPos,
                   fgVars, playVars, saveVars>>

\* the user picks another item of the combobox
SelectVoice ==
    /\ uiPc = "idle"
    /\ comboHwnd
    /\ sel' \in (0..(Len(ComboItems) - 1)) \ {sel}
    /\ UNCHANGED <<editHwnd, comboHwnd, trackbarHwnd, editText, allVoices, trackPos,
                   fgVars, playVars, saveVars>>

\* the user moves the trackbar
MoveTrackbar ==
    /\ uiPc = "idle"
    /\ trackbarHwnd
    /\ trackPos' \in TrackbarStops \ {trackPos}
    /\ UNCHANGED <<editHwnd, comboHwnd, trackbarHwnd, editText, sel, allVoices,
                   fgVars, playVars, saveVars>>

\* From a command to the synthesis step of the sessions, with a user who changes
\* the controls in between: the foreground thread, and of every background thread
\* line 138.  Nothing is in STOP before a session has passed line 138, so the loop
\* of the drain has nothing to pop here.
EditNext ==
    \/ command
    \/ ClearLock
    \/ ClearReturn
    \/ \E s \in Sessions : Synth(s)
    \/ TypeText
    \/ SelectVoice
    \/ MoveTrackbar

EditSpec == Init /\ [][EditNext]_vars

\* --------------------------------------------------- the save command
\* save_to_wav() runs as a whole on the foreground thread (command(), line 246).

\* `?` on an Err, or the final Ok(()): save_to_wav() returns, its locals are dropped
SaveReturns(r) ==
    /\ uiPc' = "idle"
    /\ cmdRet' = [id |-> ID_SAVE, r |-> r]
    /\ file_path' = NoPath
    /\ saveText' = <<>>
    /\ saveReq' = NoRequest
    /\ streamSize' = NoSize
    /\ size' = NoSize

\* the step succeeded, save_to_wav() goes on
SaveGoto(next) ==
    /\ uiPc' = next
    /\ UNCHANGED cmdRet

\* line 246 -> 188 -> 180: GetSaveFileNameW opens the modal dialog
save_to_wav ==
    /\ uiPc = "idle"
    /\ SaveGoto("save_dialog")
    /\ UNCHANGED <<uiVars, playVars, saveVars>>

\* variant: the result of the dialog is not looked at, so that an abandoned
\* dialog, which chose no path, does not end save_to_wav()
get_save_file_path_Unchecked ==
    /\ uiPc = "save_dialog"
    /\ file_path' \in Paths \cup {NoPath}
    /\ SaveGoto("save_text")
    /\ UNCHANGED <<uiVars, playVars, saveText, saveReq, streamSize, size, fileLen>>

\* lines 180-184, 188: the dialog returns FALSE (cancelled or failed) and `?` ends
\* save_to_wav(), or it returns the chosen path
get_save_file_path ==
    /\ uiPc = "save_dialog"
    /\ \/ /\ SaveReturns(ErrDialog)
          /\ UNCHANGED fileLen
       \/ /\ file_path' \in Paths
          /\ SaveGoto("save_text")
          /\ UNCHANGED <<saveText, saveReq, streamSize, size, fileLen>>
    /\ UNCHANGED <<uiVars, playVars>>

\* line 190: get_edit_control_text()?
SaveText ==
    /\ uiPc = "save_text"
    /\ LET r == get_edit_control_text(editHwnd, editText) IN
       IF r.ok
       THEN /\ saveText' = r.val
            /\ SaveGoto("save_voice")
            /\ UNCHANGED <<file_path, saveReq, streamSize, size>>
       ELSE SaveReturns("Err")
    /\ UNCHANGED <<uiVars, playVars, fileLen>>

\* lines 125-128: HSTRING::from_wide, SpeechSynthesizer::new,
\* get_selected_voice_information, SetVoice; each may fail
SaveVoice ==
    /\ uiPc = "save_voice"
    /\ \/ /\ get_selected_voice_information(comboHwnd, sel, allVoices).ok
          /\ SaveGoto("save_rate")
          /\ UNCHANGED <<file_path, saveText, saveReq, streamSize, size>>
       \/ SaveReturns("Err")
    /\ UNCHANGED <<uiVars, playVars, fileLen>>

\* line 129: get_speaking_rate()?
SaveRate ==
    /\ uiPc = "save_rate"
    /\ IF get_speaking_rate(trackbarHwnd, trackPos).ok
       THEN /\ SaveGoto("save_engine")
            /\ UNCHANGED <<file_path, saveText, saveReq, streamSize, size>>
       ELSE SaveReturns("Err")
    /\ UNCHANGED <<uiVars, playVars, fileLen>>

\* lines 130-131: SetSpeakingRate and SynthesizeTextToStreamAsync; the thread then
\* waits in .get() for the engine
SaveEngine ==
    /\ uiPc = "save_engine"
    /\ \/ /\ saveReq' = SynthesisRequest(saveText)
          /\ SaveGoto("save_synth")
          /\ UNCHANGED <<file_path, saveText, streamSize, size>>
       \/ SaveReturns("Err")
    /\ UNCHANGED <<uiVars, playVars, fileLen>>

\* line 131, .get(): the engine finishes, with a stream or with an error
SaveSynthDone ==
    /\ uiPc = "save_synth"
    /\ \/ /\ streamSize' \in StreamSizes
          /\ SaveGoto("save_load")
          /\ UNCHANGED <<file_path, saveText, saveReq, size>>
       \/ SaveReturns("Err")
    /\ UNCHANGED <<uiVars, playVars, fileLen>>

\* lines 192-196: CreateDataReader, `stream.Size()? as u32`, LoadAsync(size),
\* ReadBuffer(size), Buffer()
SaveLoad ==
    /\ uiPc = "save_load"
    /\ \/ /\ size' = AsU32(streamSize)
          /\ SaveGoto("save_write")
          /\ UNCHANGED <<file_path, saveText, saveReq, streamSize>>
       \/ SaveReturns("Err")
    /\ UNCHANGED <<uiVars, playVars, fileLen>>

\* lines 198-199: std::fs::write of `size as usize` bytes; on failure the file may
\* not exist, or exist with nothing in it
SaveWrite ==
    /\ uiPc = "save_write"
    /\ \/ /\ fileLen' = AsUsize(size)
          /\ SaveGoto("save_msgbox")
          /\ UNCHANGED <<file_path, saveText, saveReq, streamSize, size>>
       \/ /\ fileLen' \in {fileLen, U64(0, 0, 0, 0)}
          /\ SaveReturns("Err")
    /\ UNCHANGED <<uiVars, playVars>>

\* lines 201-205: the message box is shown and closed, Ok(()) is returned
SaveNotify ==
    /\ uiPc = "save_msgbox"
    /\ SaveReturns("Ok")
    /\ UNCHANGED <<uiVars, playVars, fileLen>>

\* the save command alone, on a window whose controls hold any of the inputs
SaveInit == \E t \in Texts, r \in RawPositions : Created(t, r)

SaveNext ==
    \/ save_to_wav
    \/ get_save_file_path
    \/ SaveText
    \/ SaveVoice
    \/ SaveRate
    \/ SaveEngine
    \/ SaveSynthDone
    \/ SaveLoad
    \/ SaveWrite
    \/ SaveNotify

SaveSpec == SaveInit /\ [][SaveNext]_vars

\* ------------------------------------------------------------ claims

\* C1: once a session that was playing has been woken by its "media ended" handler
\* and has run to its end, with no drain having touched its Sender, that Sender is
\* no longer in the registry.
C1_SenderRemovedOnCompletion ==
    \A s \in Sessions :
        (pc[s] = PcEnd /\ ret[s] = "Ok" /\ WokenBy(s) = "ended" /\ cancelSends[s] = 0)
            => s \notin Range(STOP)

\* C2: a session whose thread returned an error, at whatever statement, has no
\* Sender left in the registry.
C2_NoStaleSenderAfterFailure ==
    \A s \in Sessions : ret[s] = "Err" => s \notin Range(STOP)

\* C3 as stated: when the last command was a clear that has returned, every session
\* started before it that was still outstanding when it drained ends woken by a
\* drain's notification ("Cancelled").  A started session on whose Sender no drain
\* ever sent had not pushed it when the clear drained, so it was outstanding then;
\* sessions that end with an error of their own are left aside.
C3_AllSessionsEndCancelled ==
    (uiPc = "idle" /\ cmdRet = [id |-> ID_CLEAR, r |-> "Ok"]) =>
        \A s \in Sessions :
            (pc[s] # "idle" /\ cancelSends[s] = 0 /\ ret[s] = "Ok")
                => WokenBy(s) = "cancel"

\* C3 amended: a session whose Sender a drain popped before its wait returned has
\* a notification buffered, so its wait returns; a session that has not pushed its
\* Sender yet has received nothing and is in no way stopped.
C3_DrainedSessionsWake ==
    \A s \in Sessions :
        /\ (Drained(s) /\ RxAlive(s) /\ wakes[s] = 0) => chan[s] > 0
        /\ (Drained(s) /\ At(s, PcRecv)) => ENABLED Recv(s)
        /\ ~HasPushed(s) => (chan[s] = 0 /\ origin[s] = "none")

C3_Witness ==
    \E s, t \in Sessions :
        /\ s # t
        /\ uiPc = "idle" /\ cmdRet = [id |-> ID_CLEAR, r |-> "Ok"]
        /\ Drained(s) /\ At(s, PcRecv) /\ chan[s] = 1 /\ origin[s] = "cancel"
        /\ At(t, PcPlayer)

\* C4: from taking the mutex to releasing it the drain sends exactly once on every
\* Sender it found and on no other, nobody else changes the registry, and the
\* registry is empty when the mutex is released.
C4_DrainAtomic ==
    /\ [](lock = UI =>
            /\ Range(STOP) \subseteq Range(snapshot)
            /\ Cardinality(Range(snapshot)) = Len(snapshot)
            /\ \A s \in Range(snapshot) :
                   cancelSends[s] = IF s \in Range(STOP) THEN 0 ELSE 1)
    /\ [][(lock = UI /\ lock' # UI) =>
            /\ STOP = <<>> /\ STOP' = <<>>
            /\ \A s \in Range(snapshot) : cancelSends'[s] = 1
            /\ \A s \in Sessions \ Range(snapshot) : cancelSends'[s] = cancelSends[s]
         ]_vars

C4_Witness ==
    /\ uiPc = "clear_drain"
    /\ STOP = <<>>
    /\ Len(snapshot) = 2
    /\ \A s \in Range(snapshot) : cancelSends[s] = 1

\* C5: a drain notifies exactly the sessions whose Sender was in the registry when
\* it took the mutex: such a session has the notification buffered even before it
\* registers its handlers, plays or waits; a session that pushes afterwards gets no
\* notification from it and stays registered; nothing is pushed during a drain.
C5_DrainHitsExactlyTheRegistered ==
    /\ \A s \in Sessions :
        /\ (Drained(s) /\ RxAlive(s) /\ wakes[s] = 0) => chan[s] > 0
        /\ Drained(s) => cancelSends[s] = 1
        /\ ~Drained(s) =>
               /\ cancelSends[s] = 0
               /\ origin[s] # "cancel"
               /\ fires = 0 => chan[s] = 0
        /\ HasPushed(s) /\ cancelSends[s] = 0 => s \in Range(STOP)
    /\ lock = UI => \A s \in Sessions : ~At(s, PcPush)

C5_Witness ==
    \E s, t \in Sessions :
        /\ s # t
        /\ uiPc = "idle"
        /\ At(s, PcRegEnded) /\ chan[s] = 1 /\ origin[s] = "cancel"
        /\ cancelSends[s] = 1
        /\ At(t, PcRegEnded) /\ chan[t] = 0 /\ cancelSends[t] = 0
        /\ STOP = <<t>>

\* C6: a drain that finds the registry empty sends nothing, leaves the registry
\* empty, returns Ok, and its own steps change no session.
C6_EmptyDrainIsNoOp ==
    /\ []((lock = UI /\ snapshot = <<>>) => STOP = <<>>)
    /\ [][(lock = UI /\ snapshot = <<>>) =>
            /\ cancelSends' = cancelSends
            /\ STOP' = <<>>
            /\ uiPc' # uiPc =>
                   /\ uiPc' = "idle"
                   /\ lock' = Free
                   /\ cmdRet' = [id |-> ID_CLEAR, r |-> "Ok"]
                   /\ pc' = pc /\ ret' = ret /\ chan' = chan
                   /\ origin' = origin /\ wakes' = wakes
         ]_vars

C6_Witness ==
    /\ uiPc = "idle"
    /\ cmdRet = [id |-> ID_CLEAR, r |-> "Ok"]
    /\ STOP = <<>>
    /\ \A s \in Sessions : cancelSends[s] = 0
    /\ \E s \in Sessions : At(s, PcPlayer)

\* C7: whatever is sent to a session, and whenever, its wait returns at most once,
\* its player is closed at most once and after the wake-up, the drain is never
\* blocked by a send, and once its thread has returned nothing changes its result.
C7_WokenOnce ==
    /\ [](/\ \A s \in Sessions :
                /\ wakes[s] <= 1
                /\ closes[s] <= wakes[s]
                /\ Returned(s) => chan[s] = 0
          /\ (uiPc = "clear_drain" /\ STOP # <<>>) => ENABLED ClearPop)
    /\ [][\A s \in Sessions :
            Returned(s) =>
                /\ ret'[s] = ret[s] /\ pc'[s] = pc[s]
                /\ wakes'[s] = wakes[s] /\ closes'[s] = closes[s]
                /\ origin'[s] = origin[s] /\ chan'[s] = chan[s]
         ]_vars

C7_Witness ==
    \E s \in Sessions :
        /\ pc[s] = PcEnd /\ ret[s] = "Ok"
        /\ wakes[s] = 1 /\ closes[s] = 1
        /\ \A t \in Sessions \ {s} : pc[t] = "idle"
        /\ fires = 2 /\ cancelSends[s] = 1

\* C8: two sessions that were woken by notifications of different origin and then
\* closed their player and returned differ in their resulting state (where the
\* thread returned and with what result).
C8_OutcomeTellsOrigin ==
    \A s, t \in Sessions :
        (/\ pc[s] = PcEnd /\ pc[t] = PcEnd
         /\ wakes[s] = 1 /\ wakes[t] = 1
         /\ WokenBy(s) # WokenBy(t))
            => <<pc[s], ret[s]>> # <<pc[t], ret[t]>>

\* the combobox has no selection, or the selected name is not an installed voice
VoiceSelectionBad ==
    \/ sel = CB_ERR
    \/ sel >= 0 /\ ComboItems[sel + 1] \notin allVoices

\* C9: with no voice selected, or one that matches no installed voice, no session
\* gets past synthesis: no player, no Sender in the registry, no Ok.
C9_BadVoiceStopsAtSynthesis ==
    VoiceSelectionBad =>
        \A s \in Sessions :
            /\ pc[s] \in {"idle", PcSynth}
            /\ s \notin Range(STOP)
            /\ ret[s] # "Ok"
            /\ closes[s] = 0

C9_Witness ==
    /\ comboHwnd /\ trackbarHwnd
    /\ sel >= 0
    /\ VoiceSelectionBad
    /\ \E s \in Sessions : pc[s] = PcSynth /\ ret[s] = "Err"

\* C10: the play command never returns an error.
C10_SpeechReturnsOk ==
    cmdRet.id = ID_PLAY => cmdRet.r = "Ok"


\* save_to_wav() is past the dialog
SavePastDialog ==
    uiPc \in {"save_text", "save_voice", "save_rate", "save_engine", "save_synth",
              "save_load", "save_write", "save_msgbox"}

\* save_to_wav() is past get_speaking_rate()
SavePastRate ==
    uiPc \in {"save_engine", "save_synth", "save_load", "save_write", "save_msgbox"}

\* C11: the foreground thread is in no state in which it waits for the engine to
\* finish a synthesis, whichever command it is running.
C11_ForegroundNeverWaitsForSynthesis ==
    uiPc # "save_synth"

\* C12: a save whose dialog returns no path ends there with an error: until the
\* dialog has returned nothing was read or built, the step that gets no path
\* returns the Err, reads no text, calls no engine, writes no file, shows no message
\* box and leaves the registry alone, and no later step of a save runs without a path.
C12_NoPathNoEffect ==
    /\ [](uiPc = "save_dialog" =>
            /\ saveText = <<>> /\ saveReq = NoRequest
            /\ streamSize = NoSize /\ size = NoSize)
    /\ [](SavePastDialog => file_path \in Paths)
    /\ [][(uiPc = "save_dialog" /\ file_path' = NoPath) =>
            /\ uiPc' = "idle"
            /\ cmdRet' = [id |-> ID_SAVE, r |-> ErrDialog]
            /\ saveText' = <<>> /\ saveReq' = NoRequest
            /\ streamSize' = NoSize /\ size' = NoSize
            /\ fileLen' = fileLen
            /\ STOP' = STOP
         ]_vars

C12_Witness ==
    /\ cmdRet = [id |-> ID_SAVE, r |-> ErrDialog]
    /\ uiPc = "idle"
    /\ editHwnd /\ editText # <<>>
    /\ fileLen = NoFile

\* C13: the step that validates the rate goes on iff the raw position r satisfies
\* 5 <= r <= 25; whenever the engine has been given a request its rate is r tenths
\* with r in that range, and with r outside it save_to_wav() never gets past the
\* validation, so neither SetSpeakingRate nor the synthesis is reached.
C13_RateValidated ==
    /\ [][(uiPc = "save_rate" /\ trackbarHwnd) =>
            ((uiPc' = "save_engine") <=> (5 <= trackPos /\ trackPos <= 25))
         ]_vars
    /\ [](saveReq # NoRequest =>
            (saveReq.rate = trackPos /\ 5 <= trackPos /\ trackPos <= 25))
    /\ []((trackPos < 5 \/ trackPos > 25) => ~SavePastRate)

C13_Witness ==
    /\ uiPc = "save_synth"
    /\ trackPos = 17
    /\ saveReq.rate = 17

\* C14 as stated: raw 5 and raw 26 are rejected (the save never gets past the
\* validation), raw 10 and raw 25 reach the engine as 1.0 and 2.5.
C14_BoundaryCasesAsStated ==
    /\ trackPos \in {5, 26} => ~SavePastRate
    /\ (saveReq # NoRequest /\ trackPos \in {10, 25}) => saveReq.rate = trackPos

\* C14 amended: raw 4 and raw 26 are rejected; raw 5, raw 10 and raw 25 are
\* accepted and reach the engine as 0.5, 1.0 and 2.5.
C14_BoundaryCases ==
    /\ [][(uiPc = "save_rate" /\ trackbarHwnd) =>
            /\ trackPos \in {5, 10, 25} => uiPc' = "save_engine"
            /\ trackPos \in {4, 26} =>
                   (uiPc' = "idle" /\ cmdRet' = [id |-> ID_SAVE, r |-> "Err"])
         ]_vars
    /\ [](saveReq # NoRequest =>
            /\ trackPos = 5 => saveReq.rate = 5
            /\ trackPos = 10 => saveReq.rate = 10
            /\ trackPos = 25 => saveReq.rate = 25
            /\ trackPos \notin {4, 26})

C14_Witness ==
    /\ uiPc = "save_synth"
    /\ trackPos = 5
    /\ saveReq.rate = 5

\* C15: once a save has written its file, the length of the file is the declared
\* size of the stream.
C15_FileLengthIsStreamSize ==
    uiPc = "save_msgbox" => fileLen = streamSize

\* C16: the mutex of STOP is held by a session only between its lock() and its
\* push, and by the foreground thread only while it drains; whoever holds it can
\* take its next step at once (it waits for nothing), a drain only ever shortens
\* the registry, and so a thread that waits for the mutex waits for a holder that
\* can go on.
C16_LockOnlyForMutation ==
    /\ [](/\ \A s \in Sessions :
                /\ lock = s => (At(s, PcPush) /\ ENABLED Push(s))
                /\ pc[s] \in {PcRecv, PcSynth, PcPlayer, PcClose} => lock # s
                /\ Returned(s) => lock # s
          /\ lock = UI => (uiPc = "clear_drain" /\ ENABLED (ClearPop \/ ClearReturn))
          /\ uiPc = "clear_drain" => lock = UI
          /\ lock \in {Free, UI} \cup Sessions)
    /\ [][(lock = UI /\ STOP' # STOP) => Len(STOP') < Len(STOP)]_vars

C16_Witness ==
    \E s, t \in Sessions :
        /\ lock = s /\ At(s, PcPush)
        /\ At(t, PcRecv) /\ chan[t] = 0
        /\ uiPc = "clear_lock"

\* the Senders of the channel of s that exist: the clone in STOP and the two the
\* registered handlers own
LiveSenders(s) ==
    (IF s \in Range(STOP) THEN 1 ELSE 0)
    + (IF EndedRegistered(s) THEN 1 ELSE 0)
    + (IF FailedRegistered(s) THEN 1 ELSE 0)

\* C19: a session leaves rx.recv() only by receiving a message that one of its two
\* handlers or a drain sent; while nothing is buffered it cannot leave (and its
\* Senders are not all dropped, so recv() does not fail either); once a message is
\* buffered for a waiting session, the session wakes, closes its player once and
\* its thread returns.
C19_WaitEndsOnlyByNotification ==
    /\ [][\A s \in Sessions :
            (At(s, PcRecv) /\ (pc'[s] # PcRecv \/ ret'[s] # ret[s])) =>
                /\ chan[s] > 0
                /\ origin[s] \in {"ended", "failed", "cancel"}
                /\ pc'[s] = PcClose /\ ret'[s] = "none"
                /\ wakes'[s] = wakes[s] + 1
         ]_vars
    /\ [](\A s \in Sessions :
            (At(s, PcRecv) /\ chan[s] = 0) =>
                /\ ~ENABLED Recv(s)
                /\ LiveSenders(s) >= 2
                /\ fires = 0 => cancelSends[s] = 0)
    /\ \A s \in Sessions :
            (At(s, PcRecv) /\ chan[s] > 0) ~> (Returned(s) /\ closes[s] = 1)

C19_Witness ==
    \E s \in Sessions :
        /\ pc[s] = PcEnd /\ ret[s] = "Ok"
        /\ WokenBy(s) = "failed"
        /\ closes[s] = 1
        /\ cancelSends[s] = 0

\* everything the program holds about session s
SessionState(s) ==
    <<pc[s], ret[s], text[s], request[s], chan[s], origin[s], wakes[s], closes[s],
      cancelSends[s], s \in Range(STOP)>>

\* C20: a step of the thread of session a, or of a handler of its player (a step
\* that changes something of a's and is no step of a drain and no command), changes
\* nothing of any other session b: not its position or result, not its channel, and
\* not whether its Sender is in the registry.
C20_SessionsIndependent ==
    [][\A a \in Sessions :
          (/\ SessionState(a)' # SessionState(a)
           /\ cancelSends' = cancelSends
           /\ uiPc' = uiPc /\ cmdRet' = cmdRet /\ pc[a] # "idle")
             => \A b \in Sessions \ {a} : SessionState(b)' = SessionState(b)
      ]_vars

C20_Witness ==
    \E a, b \in Sessions :
        /\ a # b
        /\ pc[a] = PcEnd /\ ret[a] = "Ok" /\ WokenBy(a) = "ended"
        /\ At(b, PcRecv) /\ chan[b] = 0 /\ wakes[b] = 0
        /\ b \in Range(STOP)

\* C17: the buffer a session holds is the content of the edit control (with its
\* terminating 0) at the step of speech() that started the session; nothing changes
\* it afterwards, neither typing nor a clear; and it is the text the engine is given.
C17_TextCapturedAtCall ==
    /\ [][\A s \in Sessions :
            /\ (pc[s] = "idle" /\ pc'[s] # "idle") => text'[s] = Append(editText, 0)
            /\ pc[s] # "idle" => text'[s] = text[s]
         ]_vars
    /\ [](\A s \in Sessions : request[s] # NoRequest => request[s].text = text[s])

C17_Witness ==
    \E s \in Sessions :
        /\ request[s] # NoRequest
        /\ request[s].text = <<104, 105, 0>>
        /\ editText = <<>>
        /\ cmdRet = [id |-> ID_CLEAR, r |-> "Ok"]

\* C18: the voice and the rate the engine is given for a session are the ones the
\* combobox and the trackbar showed when speech() started the session.
C18_VoiceAndRateAsAtCall ==
    \A s \in Sessions :
        request[s] # NoRequest =>
            /\ atCall[s].sel >= 0
            /\ request[s].voice = ComboItems[atCall[s].sel + 1]
            /\ request[s].rate = atCall[s].pos

====
